---- MODULE Spec2Model ----
(***************************************************************************)
(* A model of todo-rs: the tasks table kept in a single SQLite file, the   *)
(* four Task operations of models.rs, the dispatcher of database.rs and    *)
(* the process flow of main.rs (config directory, creation prompt, exit    *)
(* code).                                                                  *)
(***************************************************************************)
EXTENDS Integers, Sequences, FiniteSets, TLC

\* Largest value sqlite_sequence may reach in the model: Add is not taken
\* beyond it.
MaxId == 2

\* The processes of the specification Spec: one invocation at a time.
Procs == {1}

(***************************************************************************)
(* Text.  A text is a sequence of one-character strings.                   *)
(***************************************************************************)
Digits == <<"0", "1", "2", "3", "4", "5", "6", "7", "8", "9">>

IsDigit(c) == \E i \in 1..10 : Digits[i] = c

DigitVal(c) == (CHOOSE i \in 1..10 : Digits[i] = c) - 1

IsSpace(c) == c \in {" ", "\n", "\t", "\r"}

\* n in decimal, zero-padded to w digits (n < 10^w).
RECURSIVE Pad(_, _)
Pad(n, w) == IF w = 0 THEN <<>> ELSE Append(Pad(n \div 10, w - 1), Digits[(n % 10) + 1])

\* now.format("%Y/%m/%d %H:%M:%S"): a format string that list does not read back.
FormatBirth_Slashes(t) ==
    Pad(t.year, 4) \o <<"/">> \o Pad(t.month, 2) \o <<"/">> \o Pad(t.day, 2) \o <<" ">>
    \o Pad(t.hour, 2) \o <<":">> \o Pad(t.minute, 2) \o <<":">> \o Pad(t.second, 2)

\* now.format("%Y-%m-%d %H:%M:%S").to_string()
FormatBirth(t) ==
    Pad(t.year, 4) \o <<"-">> \o Pad(t.month, 2) \o <<"-">> \o Pad(t.day, 2) \o <<" ">>
    \o Pad(t.hour, 2) \o <<":">> \o Pad(t.minute, 2) \o <<":">> \o Pad(t.second, 2)

RECURSIVE SkipSpace(_, _)
SkipSpace(s, pos) ==
    IF pos <= Len(s) /\ IsSpace(s[pos]) THEN SkipSpace(s, pos + 1) ELSE pos

\* The number of digits of s from pos on, at most maxw of them.
RECURSIVE DigitRun(_, _, _)
DigitRun(s, pos, maxw) ==
    IF maxw > 0 /\ pos <= Len(s) /\ IsDigit(s[pos])
    THEN 1 + DigitRun(s, pos + 1, maxw - 1)
    ELSE 0

RECURSIVE NumVal(_, _, _)
NumVal(s, pos, n) ==
    IF n = 0 THEN 0 ELSE NumVal(s, pos, n - 1) * 10 + DigitVal(s[pos + n - 1])

\* A numeric item of the format: leading white space is skipped, then one to
\* maxw digits are read.
ScanNumber(s, pos, maxw) ==
    LET from == SkipSpace(s, pos)
        n == DigitRun(s, from, maxw)
    IN  [ok |-> n > 0, val |-> NumVal(s, from, n), next |-> from + n]

\* The %Y item: four digits at most, or a sign followed by any number of
\* digits.
ScanYear(s, pos) ==
    LET from == SkipSpace(s, pos)
        signed == from <= Len(s) /\ s[from] \in {"+", "-"}
        start == IF signed THEN from + 1 ELSE from
        n == DigitRun(s, start, IF signed THEN Len(s) ELSE 4)
        v == NumVal(s, start, n)
    IN  [ok |-> n > 0,
         val |-> IF signed /\ s[from] = "-" THEN 0 - v ELSE v,
         next |-> start + n]

\* A literal character of the format.
ScanLiteral(s, pos, c) ==
    IF pos <= Len(s) /\ s[pos] = c
    THEN [ok |-> TRUE, val |-> 0, next |-> pos + 1]
    ELSE [ok |-> FALSE, val |-> 0, next |-> pos]

\* The items of the format string "%Y-%m-%d %H:%M:%S".
BirthFormat ==
    << [kind |-> "year", width |-> 4, char |-> ""],
       [kind |-> "literal", width |-> 0, char |-> "-"],
       [kind |-> "number", width |-> 2, char |-> ""],
       [kind |-> "literal", width |-> 0, char |-> "-"],
       [kind |-> "number", width |-> 2, char |-> ""],
       [kind |-> "space", width |-> 0, char |-> " "],
       [kind |-> "number", width |-> 2, char |-> ""],
       [kind |-> "literal", width |-> 0, char |-> ":"],
       [kind |-> "number", width |-> 2, char |-> ""],
       [kind |-> "literal", width |-> 0, char |-> ":"],
       [kind |-> "number", width |-> 2, char |-> ""] >>

\* One item of the format read at pos.  White space in the format stands for
\* any white space in the text, none included.
ScanItem(s, pos, item) ==
    CASE item.kind = "year" -> ScanYear(s, pos)
      [] item.kind = "number" -> ScanNumber(s, pos, item.width)
      [] item.kind = "literal" -> ScanLiteral(s, pos, item.char)
      [] item.kind = "space" -> [ok |-> TRUE, val |-> 0, next |-> SkipSpace(s, pos)]

\* The items from the i-th on, read from pos; vals are the numbers read so
\* far.  Text left over after the last item is an error.
RECURSIVE ParseItems(_, _, _, _)
RECURSIVE ParseNext(_, _, _, _)
ParseItems(s, pos, i, vals) ==
    IF i > Len(BirthFormat) THEN [ok |-> pos = Len(s) + 1, vals |-> vals]
    ELSE ParseNext(s, i, vals, ScanItem(s, pos, BirthFormat[i]))

\* r is what the i-th item read: an error ends the parse.
ParseNext(s, i, vals, r) ==
    IF ~r.ok THEN [ok |-> FALSE, vals |-> vals]
    ELSE ParseItems(s, r.next, i + 1,
                    IF BirthFormat[i].kind \in {"year", "number"}
                    THEN Append(vals, r.val) ELSE vals)

IsLeapYear(y) == (y % 4 = 0 /\ y % 100 # 0) \/ y % 400 = 0

DaysInMonth(y, m) ==
    IF m = 2 THEN (IF IsLeapYear(y) THEN 29 ELSE 28)
    ELSE IF m \in {4, 6, 9, 11} THEN 30 ELSE 31

ValidDateTime(t) ==
    /\ t.year >= 0 - 262143 /\ t.year <= 262142
    /\ t.month \in 1..12
    /\ t.day >= 1 /\ t.day <= DaysInMonth(t.year, t.month)
    /\ t.hour <= 23 /\ t.minute <= 59 /\ t.second <= 60

NoTime == [year |-> 0, month |-> 0, day |-> 0, hour |-> 0, minute |-> 0, second |-> 0]

\* The fields read, as a date and time.
ToDateTime(v) ==
    [year |-> v[1], month |-> v[2], day |-> v[3],
     hour |-> v[4], minute |-> v[5], second |-> v[6]]

\* The result of the parse: the fields must make a date and time that exists.
Parsed(p) ==
    IF p.ok /\ ValidDateTime(ToDateTime(p.vals))
    THEN [ok |-> TRUE, value |-> ToDateTime(p.vals)]
    ELSE [ok |-> FALSE, value |-> NoTime]

\* NaiveDateTime::parse_from_str(&date_str, "%Y-%m-%d %H:%M:%S")
ParseBirth(s) == Parsed(ParseItems(s, 1, 1, <<>>))

(***************************************************************************)
(* The tasks table.  A row is [id, description, done, birth]; birth is the *)
(* stored text.  The table is a sequence of rows in rowid order, which is  *)
(* the order a SELECT without ORDER BY visits them in.                     *)
(***************************************************************************)
Max(a, b) == IF a >= b THEN a ELSE b

MaxRowid(rs) == IF Len(rs) = 0 THEN 0 ELSE rs[Len(rs)].id

\* id INTEGER PRIMARY KEY without AUTOINCREMENT: one more than the largest
\* rowid now in the table.
CREATE_TASK_TABLE_NoAutoincrement(rs, sq) == MaxRowid(rs) + 1

\* CREATE_TASK_TABLE, id INTEGER PRIMARY KEY AUTOINCREMENT: the rowid of a new
\* row is one more than the largest rowid the table ever held, which
\* sqlite_sequence (sq) records.
CREATE_TASK_TABLE(rs, sq) == Max(sq, MaxRowid(rs)) + 1

\* INSERT_TASK: "INSERT INTO tasks (description, done, birth) VALUES (?1, 0, ?2)"
INSERT_TASK(rs, sq, description, birth) ==
    LET id == CREATE_TASK_TABLE(rs, sq)
    IN  [rows |-> Append(rs, [id |-> id, description |-> description,
                              done |-> FALSE, birth |-> birth]),
         seq |-> Max(sq, id),
         rowid |-> id]

\* SELECT_ALL_TASKS: "SELECT id, description, done, birth FROM tasks"
SELECT_ALL_TASKS(rs) == rs

\* "DELETE FROM tasks": every row goes.
DELETE_TASK_NoWhere(rs, id) ==
    [rows |-> <<>>, affected |-> Len(rs)]

\* DELETE_TASK: "DELETE FROM tasks WHERE id = ?1"
DELETE_TASK(rs, id) ==
    [rows |-> SelectSeq(rs, LAMBDA r : r.id # id),
     affected |-> Cardinality({i \in DOMAIN rs : rs[i].id = id})]

\* "UPDATE tasks SET done = NOT done WHERE id = ?1": a toggle.
UPDATE_TASK_DONE_Toggle(rs, id) ==
    [rows |-> [i \in DOMAIN rs |->
                 IF rs[i].id = id THEN [rs[i] EXCEPT !.done = ~rs[i].done] ELSE rs[i]],
     affected |-> Cardinality({i \in DOMAIN rs : rs[i].id = id})]

\* UPDATE_TASK_DONE: "UPDATE tasks SET done = 1 WHERE id = ?1 AND done = 0"
UPDATE_TASK_DONE(rs, id) ==
    [rows |-> [i \in DOMAIN rs |->
                 IF rs[i].id = id /\ ~rs[i].done
                 THEN [rs[i] EXCEPT !.done = TRUE] ELSE rs[i]],
     affected |-> Cardinality({i \in DOMAIN rs : rs[i].id = id /\ ~rs[i].done})]

(***************************************************************************)
(* models.rs: the Task operations.  A failure of the storage engine is an  *)
(* input: fault names the call that fails, if the run reaches it.          *)
(***************************************************************************)
\* CREATE TABLE without IF NOT EXISTS: an error when the table is there.
Task_create_default_NoIfNotExists(db, fault) ==
    IF fault = "schema" \/ db.hasTable THEN [err |-> TRUE, db |-> db]
    ELSE [err |-> FALSE, db |-> [hasTable |-> TRUE, rows |-> <<>>, seq |-> 0]]

\* Task::create_default: CREATE TABLE IF NOT EXISTS.
Task_create_default(db, fault) ==
    IF fault = "schema" THEN [err |-> TRUE, db |-> db]
    ELSE [err |-> FALSE,
          db |-> IF db.hasTable THEN db
                 ELSE [hasTable |-> TRUE, rows |-> <<>>, seq |-> 0]]

\* Task::add
Task_add(db, description, now, fault) ==
    IF fault = "execute" THEN [err |-> TRUE, db |-> db, id |-> 0]
    ELSE LET birth_str == FormatBirth(now)
             ins == INSERT_TASK(db.rows, db.seq, description, birth_str)
         IN  [err |-> FALSE,
              db |-> [hasTable |-> TRUE, rows |-> ins.rows, seq |-> ins.seq],
              id |-> ins.rowid]

\* Ok(Task { id, description, done, birth: parsed }), or the Err of the parse.
TaskOf(r, parsed) ==
    [ok |-> parsed.ok,
     task |-> [id |-> r.id, description |-> r.description, done |-> r.done,
               birth |-> parsed.value]]

\* The closure of query_map: one row to Ok(Task) or Err.
RowToTask(r) == TaskOf(r, ParseBirth(r.birth))

StepError == [ok |-> FALSE,
              task |-> [id |-> 0, description |-> "", done |-> FALSE, birth |-> NoTime]]

\* task_iter: the items the MappedRows iterator yields.  With fault "step"
\* the engine fails after k rows: the iterator yields that error and ends.
MappedRows(rs, fault, k) ==
    IF fault = "step"
    THEN [i \in 1..(k + 1) |-> IF i <= k THEN RowToTask(rs[i]) ELSE StepError]
    ELSE [i \in 1..Len(rs) |-> RowToTask(rs[i])]

\* filter_map(Result::ok).collect()
FilterMapOk(items) ==
    LET oks == SelectSeq(items, LAMBDA x : x.ok)
    IN  [i \in 1..Len(oks) |-> oks[i].task]

\* task_iter.collect::<Result<Vec<Task>, _>>(): the first Err fails the call.
Task_list_Collect(db, fault, k) ==
    LET task_iter == MappedRows(SELECT_ALL_TASKS(db.rows), fault, k)
    IN  IF fault = "prepare" \/ \E i \in DOMAIN task_iter : ~task_iter[i].ok
        THEN [err |-> TRUE, tasks |-> <<>>]
        ELSE [err |-> FALSE, tasks |-> FilterMapOk(task_iter)]

\* Task::list
Task_list(db, fault, k) ==
    IF fault = "prepare" THEN [err |-> TRUE, tasks |-> <<>>]
    ELSE LET task_iter == MappedRows(SELECT_ALL_TASKS(db.rows), fault, k)
         IN  [err |-> FALSE, tasks |-> FilterMapOk(task_iter)]

\* Ok(rows_affected >= 0): true whatever was deleted.
Task_remove_AlwaysTrue(db, id, fault) ==
    IF fault = "execute" THEN [err |-> TRUE, db |-> db, removed |-> FALSE]
    ELSE LET del == DELETE_TASK(db.rows, id)
         IN  [err |-> FALSE, db |-> [db EXCEPT !.rows = del.rows],
              removed |-> del.affected >= 0]

\* Task::remove
Task_remove(db, id, fault) ==
    IF fault = "execute" THEN [err |-> TRUE, db |-> db, removed |-> FALSE]
    ELSE LET del == DELETE_TASK(db.rows, id)
         IN  [err |-> FALSE, db |-> [db EXCEPT !.rows = del.rows],
              removed |-> del.affected > 0]

\* Ok(rows_affected >= 0): true whatever was updated.
Task_mark_done_AlwaysTrue(db, id, fault) ==
    IF fault = "execute" THEN [err |-> TRUE, db |-> db, updated |-> FALSE]
    ELSE LET upd == UPDATE_TASK_DONE(db.rows, id)
         IN  [err |-> FALSE, db |-> [db EXCEPT !.rows = upd.rows],
              updated |-> upd.affected >= 0]

\* Task::mark_done
Task_mark_done(db, id, fault) ==
    IF fault = "execute" THEN [err |-> TRUE, db |-> db, updated |-> FALSE]
    ELSE LET upd == UPDATE_TASK_DONE(db.rows, id)
         IN  [err |-> FALSE, db |-> [db EXCEPT !.rows = upd.rows],
              updated |-> upd.affected > 0]

(***************************************************************************)
(* database.rs: the dispatcher.  Standard output is a sequence of lines,   *)
(* each a record [kind, id, done, birth, description].                     *)
(***************************************************************************)
Line(kind, id, done, birth, description) ==
    [kind |-> kind, id |-> id, done |-> done, birth |-> birth,
     description |-> description]

Msg(kind, id) == Line(kind, id, "", <<>>, "")

\* What one call returns to run: the store it leaves, whether it is Err, the
\* failure that happened in it (hit), whether the Task operation returned Ok
\* (called) and with what, and the lines printed.
Res(db, err, hit, called, retId, retBool, retList, out) ==
    [db |-> db, err |-> err, hit |-> hit, called |-> called, retId |-> retId,
     retBool |-> retBool, retList |-> retList, out |-> out]

Fail(db, hit) == Res(db, TRUE, hit, FALSE, 0, FALSE, <<>>, <<>>)

\* A List arm without the is_empty test: the table is printed always.
ListLines_AlwaysTable(tasks) ==
    <<Msg("header", 0), Msg("rule", 60)>>
    \o [i \in 1..Len(tasks) |->
          Line("row", tasks[i].id, IF tasks[i].done THEN "true" ELSE "false",
               FormatBirth(tasks[i].birth), tasks[i].description)]

\* The List arm: "No tasks found", or the header, the rule and one line per task.
ListLines(tasks) ==
    IF Len(tasks) = 0 THEN <<Msg("no_tasks", 0)>>
    ELSE <<Msg("header", 0), Msg("rule", 60)>>
         \o [i \in 1..Len(tasks) |->
               Line("row", tasks[i].id, IF tasks[i].done THEN "true" ELSE "false",
                    FormatBirth(tasks[i].birth), tasks[i].description)]

\* A Remove arm that returns an error when nothing was removed.
RemoveArm_BailNotFound(db, id, fault) ==
    LET r == Task_remove(db, id, fault)
    IN  IF r.err THEN Fail(db, "execute")
        ELSE IF r.removed
        THEN Res(r.db, FALSE, "none", TRUE, 0, TRUE, <<>>, <<Msg("removed", id)>>)
        ELSE Res(r.db, TRUE, "none", TRUE, 0, FALSE, <<>>, <<>>)

\* Commands::Remove { id }
RemoveArm(db, id, fault) ==
    LET r == Task_remove(db, id, fault)
    IN  IF r.err THEN Fail(db, "execute")
        ELSE Res(r.db, FALSE, "none", TRUE, 0, r.removed, <<>>,
                 <<Msg(IF r.removed THEN "removed" ELSE "not_found", id)>>)

\* Commands::Done { id }
DoneArm(db, id, fault) ==
    LET r == Task_mark_done(db, id, fault)
    IN  IF r.err THEN Fail(db, "execute")
        ELSE Res(r.db, FALSE, "none", TRUE, 0, r.updated, <<>>,
                 <<Msg(IF r.updated THEN "marked_done" ELSE "done_or_missing", id)>>)

\* Commands::Add { description }
AddArm(db, description, now, fault) ==
    LET r == Task_add(db, description, now, fault)
    IN  IF r.err THEN Fail(db, "execute")
        ELSE Res(r.db, FALSE, "none", TRUE, r.id, FALSE, <<>>, <<Msg("added", r.id)>>)

\* Commands::List
ListArm(db, fault, k) ==
    LET r == Task_list(db, fault, k)
    IN  IF r.err THEN Fail(db, IF fault \in {"prepare", "step"} THEN fault ELSE "row")
        ELSE Res(db, FALSE, IF fault = "step" THEN "step" ELSE "none", TRUE, 0, FALSE,
                 r.tasks, ListLines(r.tasks))

\* handle_db_operations: open, create_default, then the arm of the command.
handle_db_operations(db, command, fault, now, k) ==
    IF fault = "open" THEN Fail(db, "open")
    ELSE LET sch == Task_create_default(db, fault)
         IN  IF sch.err THEN Fail(db, "schema")
             ELSE CASE command.op = "add" -> AddArm(sch.db, command.description, now, fault)
                    [] command.op = "list" -> ListArm(sch.db, fault, k)
                    [] command.op = "remove" -> RemoveArm(sch.db, command.id, fault)
                    [] command.op = "done" -> DoneArm(sch.db, command.id, fault)

\* create_database: File::create makes the file, or truncates the one there.
create_database(db, fault) ==
    IF fault = "create" THEN [err |-> TRUE, db |-> db]
    ELSE [err |-> FALSE, db |-> [hasTable |-> FALSE, rows |-> <<>>, seq |-> 0]]

(***************************************************************************)
(* config.rs                                                               *)
(***************************************************************************)
\* ensure_config_dir: get_app_config_dir()?, then create_dir_all if absent.
ensure_config_dir(exists, fault) ==
    IF fault = "home" THEN [err |-> TRUE, hit |-> "home", dirExists |-> exists, out |-> <<>>]
    ELSE IF exists THEN [err |-> FALSE, hit |-> "none", dirExists |-> TRUE, out |-> <<>>]
    ELSE IF fault = "mkdir"
    THEN [err |-> TRUE, hit |-> "mkdir", dirExists |-> FALSE, out |-> <<>>]
    ELSE [err |-> FALSE, hit |-> "none", dirExists |-> TRUE,
          out |-> <<Msg("created_config_dir", 0)>>]

\* check_config_dir_writable: fs::metadata fails, or the directory is read-only.
check_config_dir_writable(fault) ==
    IF fault \in {"metadata", "readonly"}
    THEN [err |-> TRUE, hit |-> fault]
    ELSE [err |-> FALSE, hit |-> "none"]

(***************************************************************************)
(* io_utils.rs                                                             *)
(***************************************************************************)
Lowercase == <<"a", "b", "c", "d", "e", "f", "g", "h", "i", "j", "k", "l", "m",
               "n", "o", "p", "q", "r", "s", "t", "u", "v", "w", "x", "y", "z">>

Uppercase == <<"A", "B", "C", "D", "E", "F", "G", "H", "I", "J", "K", "L", "M",
               "N", "O", "P", "Q", "R", "S", "T", "U", "V", "W", "X", "Y", "Z">>

ToAsciiUppercase(s) ==
    [i \in 1..Len(s) |->
       IF \E j \in 1..26 : Lowercase[j] = s[i]
       THEN Uppercase[CHOOSE j \in 1..26 : Lowercase[j] = s[i]]
       ELSE s[i]]

RECURSIVE TrimEnd(_)
TrimEnd(s) ==
    IF Len(s) > 0 /\ IsSpace(s[Len(s)]) THEN TrimEnd(SubSeq(s, 1, Len(s) - 1)) ELSE s

Trim(s) == LET from == SkipSpace(s, 1) IN TrimEnd(SubSeq(s, from, Len(s)))

\* A match whose only arm for false is "N": every other line is a yes.
ask_user_confirmation_DefaultYes(input) ==
    LET answer == ToAsciiUppercase(Trim(input))
    IN  IF answer = <<"N">> THEN "no" ELSE "yes"

\* One turn of the loop of ask_user_confirmation on the line read: "yes", "no",
\* or "again" (the prompt is printed once more).
ask_user_confirmation(input) ==
    LET answer == ToAsciiUppercase(Trim(input))
    IN  IF answer = <<"Y">> THEN "yes"
        ELSE IF answer = <<"N">> THEN "no"
        ELSE "again"

(***************************************************************************)
(* main.rs: one process per invocation.  run blocks once, at the creation  *)
(* prompt; a process is "idle" (not running) or at the "prompt".           *)
(***************************************************************************)
VARIABLES
    dirExists,   \* the config directory exists
    fileExists,  \* the store file tasks.db exists
    hasTable,    \* the file holds the tasks table
    rows,        \* the rows of the tasks table, in rowid order
    seq,         \* sqlite_sequence: the largest rowid the table ever held
    pc,          \* pc[p]: "idle" or "prompt"
    pending,     \* pending[p]: the command parsed by the invocation at the prompt
    outcome,     \* outcome[p]: what the latest step of p's invocation reported
    actor,       \* the process that took the latest step
    issued,      \* the ids Task::add has returned, in order
    typed        \* the line read_line gave the latest step, if it read one

vars ==
    <<dirExists, fileExists, hasTable, rows, seq, pc, pending, outcome, actor, issued,
      typed>>

\* exit(1) in main.
ExitFailure == 1

\* The local clock readings Task::add may see: one, whose every field needs
\* zero padding.
Times ==
    { [year |-> 2025, month |-> 1, day |-> 5, hour |-> 3, minute |-> 4, second |-> 5] }

\* The descriptions argument parsing hands over: clap takes any string for
\* Add { description: String }, the empty one too.
Descriptions == {"", "milk"}

\* The ids argument parsing hands over for Remove and Done.
Ids == 0..MaxId

\* The lines a user types at the prompt; <<>> is end of input.
Answers ==
    { <<"Y", "\n">>, <<"y", "\n">>, <<"N", "\n">>, <<"n", "\n">>,
      <<" ", "y", " ", "\r", "\n">>, <<"x", "\n">>, <<"y", "e", "s", "\n">>,
      <<"\n">>, <<>> }

\* The calls that may fail in an invocation; "none": nothing fails.
Faults ==
    {"none", "home", "mkdir", "metadata", "readonly", "create", "open", "schema",
     "execute", "prepare", "step", "stdin", "flush"}

\* The calls of handle_db_operations that command op makes.
StoreFaults(op) ==
    {"open", "schema"}
    \cup (IF op = "list" THEN {"prepare", "step"} ELSE {"execute"})

\* The calls an invocation makes from its start (to the prompt, if the file is
\* absent): a fault in a call that is not made changes nothing.
StartFaults(op) ==
    {"none", "home", "metadata", "readonly"}
    \cup (IF dirExists THEN {} ELSE {"mkdir"})
    \cup (IF fileExists THEN StoreFaults(op) ELSE {"flush"})

\* The calls an invocation makes from the prompt on.
ConfirmFaults(op) == {"none", "stdin", "flush", "create"} \cup StoreFaults(op)

\* Birth texts of a store file this program did not write: month 13, an empty
\* text, and a text without zero padding (which parse_from_str accepts).
ForeignBirths ==
    { <<"2", "0", "2", "4", "-", "1", "3", "-", "0", "7", " ",
        "1", "4", ":", "3", "0", ":", "1", "5">>,
      <<>>,
      <<"2", "0", "2", "5", "-", "1", "-", "5", " ", "3", ":", "4", ":", "5">> }

NoCommand == [op |-> "none", id |-> 0, description |-> ""]

\* No line was read: read_line was not called, or it returned Err.
NoLine == [read |-> FALSE, line |-> <<>>]

\* What a step of an invocation leaves in outcome[p].
Outcome(command, finished, exit, panicked, r, out) ==
    [command |-> command, finished |-> finished, exit |-> exit, stderr |-> r.err,
     panicked |-> panicked, hit |-> r.hit, called |-> r.called, retId |-> r.retId,
     retBool |-> r.retBool, retList |-> r.retList, out |-> out \o r.out]

Nothing(db) == Res(db, FALSE, "none", FALSE, 0, FALSE, <<>>, <<>>)

NoOutcome ==
    Outcome(NoCommand, FALSE, 0, FALSE,
            Nothing([hasTable |-> FALSE, rows |-> <<>>, seq |-> 0]), <<>>)

\* main: Err(e) from run is printed to stderr and the process exits with 1.
main(command, r, out) ==
    Outcome(command, TRUE, IF r.err THEN ExitFailure ELSE 0, FALSE, r, out)

\* A panic (expect on flush): the process ends with the runtime's code 101.
Panic(command, db, hit) ==
    Outcome(command, TRUE, 101, TRUE, Fail(db, hit), <<>>)

Db == [hasTable |-> hasTable, rows |-> rows, seq |-> seq]

Init ==
    /\ pc = [p \in Procs |-> "idle"]
    /\ pending = [p \in Procs |-> NoCommand]
    /\ outcome = [p \in Procs |-> NoOutcome]
    /\ actor = 0
    /\ issued = <<>>
    /\ typed = NoLine
    \* Either nothing is there yet, or a store file is, with one row whose birth
    \* this program did not write.
    /\ \/ /\ dirExists = FALSE /\ fileExists = FALSE /\ hasTable = FALSE
          /\ rows = <<>> /\ seq = 0
       \/ \E b \in ForeignBirths :
          /\ dirExists = TRUE /\ fileExists = TRUE /\ hasTable = TRUE
          /\ rows = << [id |-> 1, description |-> "tea", done |-> FALSE, birth |-> b] >>
          /\ seq = 1

\* The state a step of process p leaves.
Apply(p, dir, file, db, pcn, pend, oc) ==
    /\ actor' = p
    /\ dirExists' = dir
    /\ fileExists' = file
    /\ hasTable' = db.hasTable
    /\ rows' = db.rows
    /\ seq' = db.seq
    /\ pc' = [pc EXCEPT ![p] = pcn]
    /\ pending' = [pending EXCEPT ![p] = pend]
    /\ outcome' = [outcome EXCEPT ![p] = oc]
    /\ issued' = IF oc.called /\ oc.command.op = "add"
                 THEN Append(issued, oc.retId) ELSE issued

\* run, from parse_args to the prompt or to the end.
Start(p, command, fault, now, k) ==
    /\ pc[p] = "idle"
    /\ fault \in Faults
    /\ command.op = "add" => seq < MaxId
    /\ typed' = NoLine
    /\ LET cfg == ensure_config_dir(dirExists, fault)
           wr == check_config_dir_writable(fault)
       IN  IF cfg.err
           THEN Apply(p, cfg.dirExists, fileExists, Db, "idle", NoCommand,
                      main(command, Fail(Db, cfg.hit), cfg.out))
           ELSE IF wr.err
           THEN Apply(p, cfg.dirExists, fileExists, Db, "idle", NoCommand,
                      main(command, Fail(Db, wr.hit), cfg.out))
           ELSE IF fileExists
           THEN LET r == handle_db_operations(Db, command, fault, now, k)
                IN  Apply(p, cfg.dirExists, TRUE, r.db, "idle", NoCommand,
                          main(command, r, cfg.out))
           ELSE IF fault = "flush"
           THEN Apply(p, cfg.dirExists, fileExists, Db, "idle", NoCommand,
                      Panic(command, Db, "flush"))
           ELSE Apply(p, cfg.dirExists, fileExists, Db, "prompt", command,
                      Outcome(command, FALSE, 0, FALSE, Nothing(Db),
                              cfg.out \o <<Msg("db_not_found", 0), Msg("prompt", 0)>>))

Add(p) ==
    \E description \in Descriptions, fault \in StartFaults("add"), now \in Times :
        Start(p, [op |-> "add", id |-> 0, description |-> description], fault, now, 0)

List(p) ==
    \E fault \in StartFaults("list"), k \in 0..Len(rows) :
        /\ fault # "step" => k = 0
        /\ Start(p, [op |-> "list", id |-> 0, description |-> ""], fault,
                 CHOOSE t \in Times : TRUE, k)

Remove(p) ==
    \E id \in Ids, fault \in StartFaults("remove") :
        Start(p, [op |-> "remove", id |-> id, description |-> ""], fault,
              CHOOSE t \in Times : TRUE, 0)

Done(p) ==
    \E id \in Ids, fault \in StartFaults("done") :
        Start(p, [op |-> "done", id |-> id, description |-> ""], fault,
              CHOOSE t \in Times : TRUE, 0)

\* run, from the line read at the prompt on.
Confirm(p) ==
    \E input \in Answers, fault \in ConfirmFaults(pending[p].op), now \in Times :
        /\ pc[p] = "prompt"
        /\ typed' = IF fault = "stdin" THEN NoLine ELSE [read |-> TRUE, line |-> input]
        /\ LET command == pending[p]
               again == Outcome(command, FALSE, 0, FALSE, Nothing(Db),
                                <<Msg("please_enter", 0), Msg("prompt", 0)>>)
               answer == ask_user_confirmation(input)
           IN  IF fault = "stdin"
               THEN Apply(p, dirExists, fileExists, Db, "prompt", command,
                          [again EXCEPT !.stderr = TRUE, !.out = <<Msg("prompt", 0)>>])
               ELSE IF answer = "again"
               THEN IF fault = "flush"
                    THEN Apply(p, dirExists, fileExists, Db, "idle", NoCommand,
                               Panic(command, Db, "flush"))
                    ELSE Apply(p, dirExists, fileExists, Db, "prompt", command, again)
               ELSE IF answer = "no"
               THEN Apply(p, dirExists, fileExists, Db, "idle", NoCommand,
                          main(command, Nothing(Db), <<Msg("goodbye", 0)>>))
               ELSE LET c == create_database(Db, fault)
                    IN  IF c.err
                        THEN Apply(p, dirExists, fileExists, Db, "idle", NoCommand,
                                   main(command, Fail(Db, "create"), <<>>))
                        ELSE LET r == handle_db_operations(c.db, command, fault, now, 0)
                             IN  Apply(p, dirExists, TRUE, r.db, "idle", NoCommand,
                                       main(command, r, <<Msg("db_created", 0)>>))

Next ==
    \E p \in Procs : Add(p) \/ List(p) \/ Remove(p) \/ Done(p) \/ Confirm(p)

Spec == Init /\ [][Next]_vars

(***************************************************************************)
(* Two invocations against the same store path, each process one of them.  *)
(* Each blocks at the prompt only, so their steps interleave there: one    *)
(* may wait at the prompt while the other runs from its start or from its  *)
(* own prompt to its end.                                                  *)
(***************************************************************************)
RaceProcs == {1, 2}

\* Nothing is there yet: neither the config directory nor the store file.
InitRace ==
    /\ pc = [p \in RaceProcs |-> "idle"]
    /\ pending = [p \in RaceProcs |-> NoCommand]
    /\ outcome = [p \in RaceProcs |-> NoOutcome]
    /\ actor = 0
    /\ issued = <<>>
    /\ typed = NoLine
    /\ dirExists = FALSE /\ fileExists = FALSE /\ hasTable = FALSE
    /\ rows = <<>> /\ seq = 0

\* The invocation of process p has not ended.
Running(p) == ~outcome[p].finished

NextRace ==
    \E p \in RaceProcs :
        \/ Running(p) /\ Add(p)
        \/ Running(p) /\ List(p)
        \/ Running(p) /\ Remove(p)
        \/ Running(p) /\ Done(p)
        \/ Running(p) /\ Confirm(p)

SpecRace == InitRace /\ [][NextRace]_vars

(***************************************************************************)
(* Properties.                                                             *)
(***************************************************************************)
RowIds(rs) == {rs[i].id : i \in DOMAIN rs}

Range(f) == {f[i] : i \in DOMAIN f}

\* The failures of the file system and of the storage engine.
StorageFailures ==
    {"home", "mkdir", "metadata", "readonly", "create", "open", "schema",
     "execute", "prepare", "step"}

\* Process p took this step, its invocation ended in it, and its command was op.
Ran(p, op) ==
    /\ actor' = p
    /\ outcome'[p].finished
    /\ outcome'[p].command.op = op

\* Ran(p, op), and the Task operation of the command returned Ok.
Returned(p, op) == Ran(p, op) /\ outcome'[p].called

\* What SelectAll returns on rows rs when the engine does not fail.
Listed(rs) == Task_list([hasTable |-> TRUE, rows |-> rs, seq |-> 0], "none", 0).tasks

\* C1: every id Task::add returns is strictly greater than every id an earlier
\* Task::add returned and than every id the table ever held, so ids are
\* pairwise distinct and never reassigned, also after the row with the
\* largest id was deleted.
C1_IdsStrictlyIncreasing ==
    /\ \A i, j \in DOMAIN issued : i < j => issued[i] < issued[j]
    /\ \A i, j \in DOMAIN rows : i # j => rows[i].id # rows[j].id
    /\ \A i \in DOMAIN issued : issued[i] <= seq
    /\ \A i \in DOMAIN rows : rows[i].id <= seq

\* The second Add ran when the row of the first, the largest id, was deleted.
C1_Witness ==
    \E p \in Procs :
        /\ outcome[p].command.op = "add" /\ outcome[p].called
        /\ Len(issued) = 2 /\ outcome[p].retId = issued[2]
        /\ RowIds(rows) = {issued[2]}

\* C2: mark_done returns true exactly when a row with that id exists and is
\* not done before the call, and then sets done of that row; otherwise it
\* returns false and leaves the table as it was.
C2_MarkDoneExact ==
    [][\A p \in Procs : Returned(p, "done") =>
        LET id == outcome'[p].command.id
            pre == \E i \in DOMAIN rows : rows[i].id = id /\ ~rows[i].done
        IN  /\ outcome'[p].retBool = pre
            /\ pre => rows' = [i \in DOMAIN rows |->
                                 IF rows[i].id = id
                                 THEN [rows[i] EXCEPT !.done = TRUE] ELSE rows[i]]
            /\ ~pre => rows' = rows]_vars

\* Done returned true and the row is done.
C2_Witness ==
    \E p \in Procs :
        /\ outcome[p].command.op = "done" /\ outcome[p].called /\ outcome[p].retBool
        /\ \E i \in DOMAIN rows : rows[i].id = outcome[p].command.id /\ rows[i].done

\* C3: done is set once: a row is inserted with done = false, a row that is
\* done stays done as long as it exists, and mark_done on a done row returns
\* false.
C3_DoneSetOnce ==
    [][/\ \A i \in DOMAIN rows : rows[i].done =>
             \A j \in DOMAIN rows' : rows'[j].id = rows[i].id => rows'[j].done
       /\ \A p \in Procs : Returned(p, "add") =>
             \E j \in DOMAIN rows' :
                 rows'[j].id = outcome'[p].retId /\ ~rows'[j].done
       /\ \A p \in Procs : Returned(p, "done") =>
             ((\E i \in DOMAIN rows : rows[i].id = outcome'[p].command.id /\ rows[i].done)
                 => ~outcome'[p].retBool)]_vars

\* Done on a row that is done already returned false, and the row is done.
C3_Witness ==
    \E p \in Procs :
        /\ outcome[p].command.op = "done" /\ outcome[p].called /\ ~outcome[p].retBool
        /\ \E i \in DOMAIN rows : rows[i].id = outcome[p].command.id /\ rows[i].done

\* C4: remove returns true exactly when a row with that id exists before the
\* call; after the call no row and no listed task has that id; a remove of
\* the same id right after it returns false.
C4_RemoveExact ==
    [][\A p \in Procs : Returned(p, "remove") =>
        LET id == outcome'[p].command.id
        IN  /\ outcome'[p].retBool = (id \in RowIds(rows))
            /\ id \notin RowIds(rows')
            /\ \A i \in DOMAIN Listed(rows') : Listed(rows')[i].id # id
            /\ (outcome[p].command.op = "remove" /\ outcome[p].called
                /\ outcome[p].command.id = id) => ~outcome'[p].retBool]_vars

\* Remove of an id that Task::add once returned found no row: it returned false.
C4_Witness ==
    \E p \in Procs :
        /\ outcome[p].command.op = "remove" /\ outcome[p].called /\ ~outcome[p].retBool
        /\ outcome[p].command.id \in Range(issued)

\* C5: a Remove or Done that matches no row (no such id, or the row is done
\* already) is not an error: the operation returns false, the table is
\* unchanged, the last line printed is the informational one, nothing goes
\* to stderr and the exit code is 0.  (The store file exists after the step
\* exactly when the command was dispatched.)
C5_NotFoundIsSuccess ==
    [][\A p \in Procs, op \in {"remove", "done"} :
        LET id == outcome'[p].command.id
            matches == \E i \in DOMAIN rows :
                          rows[i].id = id /\ (op = "done" => ~rows[i].done)
        IN  (actor' = p /\ outcome'[p].command.op = op /\ outcome'[p].hit = "none"
             /\ outcome'[p].finished /\ fileExists' /\ ~matches) =>
                /\ outcome'[p].called /\ ~outcome'[p].retBool
                /\ rows' = rows /\ seq' = seq
                /\ Len(outcome'[p].out) > 0
                /\ outcome'[p].out[Len(outcome'[p].out)] =
                      Msg(IF op = "remove" THEN "not_found" ELSE "done_or_missing", id)
                /\ ~outcome'[p].stderr
                /\ outcome'[p].exit = 0]_vars

\* Remove of an id the table never held ended with exit code 0.
C5_Witness ==
    \E p \in Procs :
        /\ outcome[p].command.op = "remove" /\ outcome[p].finished
        /\ outcome[p].called /\ ~outcome[p].retBool /\ outcome[p].exit = 0
        /\ outcome[p].command.id \notin Range(issued) \cup RowIds(rows)
        /\ Len(rows) > 0

C7_InsertListRoundTrip ==
    [][\A p \in Procs : Returned(p, "add") =>
        LET K == outcome'[p].retId
            before == Listed(rows)
            after == Listed(rows')
        IN  /\ Len(after) = Len(before) + 1
            /\ SubSeq(after, 1, Len(before)) = before
            /\ after[Len(after)].id = K
            /\ after[Len(after)].description = outcome'[p].command.description
            /\ ~after[Len(after)].done
            /\ \A i \in DOMAIN before : before[i].id # K
            /\ \E j \in DOMAIN rows' :
                  /\ rows'[j].id = K
                  /\ ParseBirth(rows'[j].birth).ok
                  /\ ParseBirth(rows'[j].birth).value \in Times]_vars

\* Add returned 2 and list returns two tasks.
C7_Witness ==
    \E p \in Procs :
        /\ outcome[p].command.op = "add" /\ outcome[p].called /\ outcome[p].retId = 2
        /\ Len(Listed(rows)) = 2

\* C8: a command changes one row at most: Add appends one row, Remove deletes
\* the row of its id only, Done changes done of the row of its id only, List
\* changes nothing; every other field of every row stays.
C8_Frame ==
    [][\A p \in Procs : actor' = p =>
        LET c == outcome'[p].command
        IN  /\ ~outcome'[p].finished => rows' = rows
            /\ Ran(p, "list") => rows' = rows
            /\ Ran(p, "add") =>
                  \/ rows' = rows
                  \/ /\ Len(rows') = Len(rows) + 1
                     /\ SubSeq(rows', 1, Len(rows)) = rows
            /\ Ran(p, "remove") =>
                  /\ rows' \in {rows, SelectSeq(rows, LAMBDA r : r.id # c.id)}
                  /\ Len(rows) - Len(rows') <= 1
            /\ Ran(p, "done") =>
                  /\ Len(rows') = Len(rows)
                  /\ \A i \in DOMAIN rows :
                        /\ rows'[i].id = rows[i].id
                        /\ rows'[i].description = rows[i].description
                        /\ rows'[i].birth = rows[i].birth
                        /\ rows[i].id # c.id => rows'[i].done = rows[i].done]_vars

\* Remove deleted a row and another row is still there.
C8_Witness ==
    \E p \in Procs :
        /\ outcome[p].command.op = "remove" /\ outcome[p].called /\ outcome[p].retBool
        /\ Len(rows) > 0

\* C9: the description of every row is a non-empty text.
C9_DescriptionNonEmpty ==
    \A i \in DOMAIN rows : rows[i].description # ""

\* C10 (first half): an invocation in which the file system or the storage
\* engine failed ends with a non-zero exit code.
C10_StorageFailureExitsNonZero ==
    \A p \in Procs :
        (outcome[p].finished /\ outcome[p].hit \in StorageFailures)
            => outcome[p].exit # 0

\* The lines of the List arm among the lines printed.
ListOutput(out) ==
    SelectSeq(out, LAMBDA l : l.kind \in {"no_tasks", "header", "rule", "row"})

\* C11: the List arm prints the single line "No tasks found" and no table
\* exactly when Task::list returned an empty sequence; otherwise it prints
\* the header, the rule of 60 dashes and one row per returned task, in the
\* order returned, with done as the literal true or false.  When Task::list
\* failed, none of these lines is printed.
C11_ListOutput ==
    \A p \in Procs :
        (outcome[p].finished /\ outcome[p].command.op = "list") =>
            LET tasks == outcome[p].retList
                lines == ListOutput(outcome[p].out)
            IN  /\ ~outcome[p].called => lines = <<>>
                /\ (outcome[p].called /\ Len(tasks) = 0) =>
                      lines = <<Msg("no_tasks", 0)>>
                /\ (outcome[p].called /\ Len(tasks) > 0) =>
                      /\ Len(lines) = Len(tasks) + 2
                      /\ lines[1] = Msg("header", 0)
                      /\ lines[2] = Msg("rule", 60)
                      /\ \A i \in DOMAIN tasks :
                            /\ lines[i + 2].kind = "row"
                            /\ lines[i + 2].id = tasks[i].id
                            /\ lines[i + 2].description = tasks[i].description
                            /\ lines[i + 2].done \in {"true", "false"}
                            /\ (lines[i + 2].done = "true") = tasks[i].done

\* List printed the table of two tasks, one done and one not.
C11_Witness ==
    \E p \in Procs :
        /\ outcome[p].finished /\ outcome[p].command.op = "list" /\ outcome[p].called
        /\ Len(outcome[p].retList) = 2
        /\ Len(ListOutput(outcome[p].out)) = 4
        /\ \E i, j \in DOMAIN outcome[p].out :
              /\ outcome[p].out[i].kind = "row" /\ outcome[p].out[i].done = "true"
              /\ outcome[p].out[j].kind = "row" /\ outcome[p].out[j].done = "false"

\* C12: Task::create_default is idempotent and runs on every open of the
\* store: on a store that has the tasks table it returns Ok and leaves rows
\* and id counter as they are (and a second call after a first changes
\* nothing); every invocation that opened the store leaves it with the
\* table; and an invocation on a store with the table keeps the table, never
\* lowers the id counter and keeps every row but the one a Remove names, so
\* what earlier invocations wrote is there for the later ones.
C12_EnsureSchemaIdempotent ==
    [][/\ hasTable =>
             /\ ~Task_create_default(Db, "none").err
             /\ Task_create_default(Db, "none").db = Db
       /\ Task_create_default(Task_create_default(Db, "none").db, "none")
             = Task_create_default(Db, "none")
       /\ \A p \in Procs :
             (actor' = p /\ outcome'[p].finished /\ fileExists'
              /\ outcome'[p].hit \notin {"home", "mkdir", "metadata", "readonly",
                                         "create", "open", "schema"})
                 => hasTable'
       /\ \A p \in Procs : (actor' = p /\ hasTable) =>
             /\ hasTable'
             /\ seq' >= seq
             /\ (outcome'[p].hit = "none" /\ outcome'[p].finished)
                   => (outcome'[p].called /\ outcome'[p].exit = 0)
             /\ \A i \in DOMAIN rows :
                   \/ /\ Ran(p, "remove")
                      /\ outcome'[p].command.id = rows[i].id
                   \/ \E j \in DOMAIN rows' :
                         /\ rows'[j].id = rows[i].id
                         /\ rows'[j].description = rows[i].description
                         /\ rows'[j].birth = rows[i].birth]_vars

\* A List invocation returned a task that an earlier Add invocation wrote.
C12_Witness ==
    \E p \in Procs :
        /\ outcome[p].finished /\ outcome[p].command.op = "list" /\ outcome[p].called
        /\ \E i \in DOMAIN outcome[p].retList :
              outcome[p].retList[i].id \in Range(issued)

\* The answer in the line the latest step read: the line without the white
\* space around it (the line terminator is part of every line read).
Answered(letters) == typed'.read /\ Trim(typed'.line) \in letters

\* C13: when the store file is absent at startup, the invocation creates
\* nothing and runs no Task operation before the prompt; at the prompt the
\* store file is created and the command is run only on the answer Y or y;
\* on N or n no file is created, no Task operation runs and the process
\* ends with exit code 0; on any other line, and when no line could be
\* read, the store stays as it is, no Task operation runs and, unless
\* standard output fails, the prompt is printed again.
C13_CommandOnlyAfterYes ==
    [][\A p \in Procs : (actor' = p /\ ~fileExists) =>
        LET yes == Answered({<<"Y">>, <<"y">>})
            no == Answered({<<"N">>, <<"n">>})
            o == outcome'[p]
            storeKept == /\ ~fileExists'
                         /\ hasTable' = hasTable /\ rows' = rows /\ seq' = seq
                         /\ ~o.called
        IN  /\ pc[p] = "idle" =>
                  /\ storeKept
                  /\ o.hit = "none" =>
                        /\ pc'[p] = "prompt" /\ ~o.finished
                        /\ o.out[Len(o.out)] = Msg("prompt", 0)
            /\ pc[p] = "prompt" =>
                  /\ (fileExists' \/ o.called) => yes
                  /\ (yes /\ o.hit = "none") =>
                        /\ fileExists' /\ o.called /\ o.finished
                        /\ o.command = pending[p]
                        /\ o.out[1] = Msg("db_created", 0)
                  /\ no =>
                        /\ storeKept
                        /\ o.finished /\ o.exit = 0 /\ ~o.stderr
                        /\ o.out = <<Msg("goodbye", 0)>>
                        /\ pc'[p] = "idle"
                  /\ (~yes /\ ~no) =>
                        /\ storeKept
                        /\ o.hit = "none" =>
                              /\ pc'[p] = "prompt" /\ ~o.finished
                              /\ pending'[p] = pending[p]
                              /\ o.out[Len(o.out)] = Msg("prompt", 0)]_vars

\* The answer was y: the store file was created and the Add was run.
C13_Witness ==
    \E p \in Procs :
        /\ typed = [read |-> TRUE, line |-> <<"y", "\n">>]
        /\ actor = p /\ fileExists
        /\ outcome[p].finished /\ outcome[p].called
        /\ outcome[p].command.op = "add"
        /\ outcome[p].out[1] = Msg("db_created", 0)

\* C14: in every interleaving of two invocations, create_database runs only
\* while the store file does not exist, and the step that creates the store
\* keeps every row that is in it (but the row its own Remove names).
C14_CreateOnlyWhenAbsent ==
    [][\A p \in RaceProcs :
        (actor' = p /\ pc[p] = "prompt"
         /\ \E i \in DOMAIN outcome'[p].out :
               outcome'[p].out[i] = Msg("db_created", 0)) =>
            /\ ~fileExists
            /\ \A i \in DOMAIN rows :
                  \/ rows[i].id \in RowIds(rows')
                  \/ /\ outcome'[p].command.op = "remove"
                     /\ outcome'[p].command.id = rows[i].id]_vars

====
